---- MODULE Spec2Model ----
(***************************************************************************)
(* Budgetlytic: the two expense categorizers                               *)
(*   src/ai/categorizer.py      (whole-text containment engine, mutable    *)
(*                               registry, override file)                  *)
(*   src/nlp_module/catagory.py (tokenized exact/fuzzy/ConceptNet engine,  *)
(*                               persistent lookup cache)                  *)
(* Strings are TLA+ strings handled as character sequences (Len, SubSeq,   *)
(* \o), so containment, regular expressions, lower-casing and number       *)
(* parsing are computed character by character.                           *)
(* A value that is used more than once is passed as an operator parameter  *)
(* rather than bound by LET, one operator per statement of the code.       *)
(***************************************************************************)
EXTENDS Integers, Sequences, FiniteSets, TLC

(***************************************************************************)
(* Character and string helpers (Python str methods and re patterns)       *)
(***************************************************************************)
Upper == "ABCDEFGHIJKLMNOPQRSTUVWXYZ"
LowerCase == "abcdefghijklmnopqrstuvwxyz"
Digits == "0123456789"

Ch(s, i) == SubSeq(s, i, i)

\* the character classes, as sets of one-character strings
UpperSet == { Ch(Upper, i) : i \in 1..Len(Upper) }
LowerSet == { Ch(LowerCase, i) : i \in 1..Len(LowerCase) }
DigitSet == { Ch(Digits, i) : i \in 1..Len(Digits) }

\* the lower-case letter of an upper-case one, and the value of a digit
ToLower == [c \in UpperSet |-> Ch(LowerCase, CHOOSE i \in 1..Len(Upper) : Ch(Upper, i) = c)]
DigitValue == [c \in DigitSet |-> (CHOOSE i \in 1..Len(Digits) : Ch(Digits, i) = c) - 1]

IsDigit(c) == c \in DigitSet
IsAlpha(c) == c \in UpperSet \/ c \in LowerSet
\* \w of the re module
IsWordChar(c) == IsAlpha(c) \/ IsDigit(c) \/ c = "_"
IsSpace(c) == c = " "

LowerChar(c) == IF c \in UpperSet THEN ToLower[c] ELSE c

\* str.lower()
RECURSIVE Lower(_)
Lower(s) == IF Len(s) = 0 THEN "" ELSE LowerChar(Ch(s, 1)) \o Lower(SubSeq(s, 2, Len(s)))

\* str.strip()
RECURSIVE LStrip(_)
LStrip(s) == IF Len(s) > 0 /\ IsSpace(Ch(s, 1)) THEN LStrip(SubSeq(s, 2, Len(s))) ELSE s
RECURSIVE RStrip(_)
RStrip(s) == IF Len(s) > 0 /\ IsSpace(Ch(s, Len(s))) THEN RStrip(SubSeq(s, 1, Len(s) - 1)) ELSE s
Strip(s) == RStrip(LStrip(s))

\* the Python test `kw in text`
Contains(text, kw) ==
  \E i \in 1..(Len(text) - Len(kw) + 1) : SubSeq(text, i, i + Len(kw) - 1) = kw

\* the zero-width assertion \b between positions i-1 and i of text (1 <= i <= Len+1)
Boundary(text, i) ==
  LET before == i > 1 /\ IsWordChar(Ch(text, i - 1))
      after  == i <= Len(text) /\ IsWordChar(Ch(text, i))
  IN  before # after

\* re.search(r"\b(w1|w2|...)\b", text) for a set of literal words
WordSearch(words, text) ==
  \E w \in words : \E i \in 1..(Len(text) - Len(w) + 1) :
     /\ SubSeq(text, i, i + Len(w) - 1) = w
     /\ Boundary(text, i)
     /\ Boundary(text, i + Len(w))

\* float(digits) for a string of decimal digits
RECURSIVE ParseNat(_)
ParseNat(s) ==
  IF Len(s) = 0 THEN 0
  ELSE 10 * ParseNat(SubSeq(s, 1, Len(s) - 1)) + DigitValue[Ch(s, Len(s))]

\* str.join
RECURSIVE Join(_, _)
Join(sep, parts) ==
  IF Len(parts) = 0 THEN ""
  ELSE IF Len(parts) = 1 THEN parts[1]
  ELSE parts[1] \o sep \o Join(sep, Tail(parts))

\* list.index: position of the first occurrence, 0 when list.index raises ValueError
IndexOf(list, x) ==
  IF \E i \in 1..Len(list) : list[i] = x
  THEN CHOOSE i \in 1..Len(list) : list[i] = x /\ \A j \in 1..(i - 1) : list[j] # x
  ELSE 0

(***************************************************************************)
(* State                                                                   *)
(***************************************************************************)
VARIABLES
  engine,             \* which module this process runs: "ai" or "nlp"
  CATEGORY_DATA,      \* ai/categorizer.py: list of category records
  CATEGORY_KEYWORDS,  \* ai/categorizer.py: insertion-ordered dict kw -> [names]
  CATEGORY_NAMES,     \* ai/categorizer.py: list of names
  configFile,         \* content of ai/categories.json, or NoFile
  added,              \* number of add_custom_category calls made so far
  conceptnet_cache,   \* nlp_module/catagory.py: dict token -> list of labels
  cacheFile,          \* content of conceptnet_cache.json, or NoFile
  lookups,            \* the get_conceptnet_isas calls of the last operation
  answered,           \* history: token -> the first value a lookup returned for it
  call,               \* the last operation and its arguments
  result,             \* what the last operation returned or raised
  accumulated,        \* history: len(scores) when the last suggest tested `not scores`
  threads,            \* the threads calling get_conceptnet_isas: position, word, buffer
  fetched,            \* history: the words whose request was answered with labels
  adder,              \* a thread inside add_custom_category: position and arguments
  reader,             \* a thread inside suggest_categories of ai/categorizer.py
  amount,             \* the last amount extraction: its text and what it returned
  sent,               \* ai/reminders.py: the field "sent" of every reminder document
  clock,              \* the time get_local_now() returns
  runs,               \* the runs of process_due_reminders: position and locals
  delivered,          \* history: per reminder, the pushes that returned status 200
  push,               \* history: the last call of send_fcm_push that sent a request
  started             \* number of process_due_reminders runs started so far

aiVars == << CATEGORY_DATA, CATEGORY_KEYWORDS, CATEGORY_NAMES, configFile, added >>
nlpVars == << conceptnet_cache, cacheFile, lookups, answered >>
remVars == << sent, clock, runs, delivered, push, started >>
sideVars == << adder, reader, amount, remVars >>
threadVars == << threads, fetched, sideVars >>
vars == << engine, aiVars, nlpVars, call, result, accumulated, threadVars >>

\* no add_custom_category call, no suggest_categories call and no amount
\* extraction is under way
NoAdd == [pc |-> "idle"]
NoRead == [pc |-> "idle"]
NoExtraction == [op |-> "none"]
NoPush == [op |-> "none"]
NoRun == [pc |-> "idle"]

\* a file's content: absent, or what was written to it
NoFile == [kind |-> "absent"]
\* the text of a JSON document, token by token: a string literal or a
\* punctuation mark
JsonString(s) == [t |-> "string", v |-> s]
JsonMark(m) == [t |-> m, v |-> ""]

RECURSIVE JsonStrings(_)
JsonStrings(list) ==
  IF Len(list) = 0 THEN << >>
  ELSE << JsonString(Head(list)) >> \o JsonStrings(Tail(list))

\* a category written with an empty keyword list
DumpCategoryBare(c) ==
  << JsonMark("{"), JsonString("name"), JsonString(c.name),
     JsonString("emoji"), JsonString(c.emoji),
     JsonString("keywords"), JsonMark("["), JsonMark("]"), JsonMark("}") >>

\* json.dump of one category dict: its keys in insertion order
DumpCategory(c) ==
  << JsonMark("{"), JsonString("name"), JsonString(c.name),
     JsonString("emoji"), JsonString(c.emoji),
     JsonString("keywords"), JsonMark("[") >>
  \o JsonStrings(c.keywords) \o << JsonMark("]"), JsonMark("}") >>

RECURSIVE DumpCategories(_, _)
DumpCategories(text, data) ==
  IF Len(text) >= 0 /\ Len(data) = 0 THEN text
  ELSE DumpCategories(text \o DumpCategory(Head(data)), Tail(data))

\* json.dump(CATEGORY_DATA, f, ensure_ascii=False, indent=2): what the file holds
DumpedData(data) ==
  [kind |-> "data",
   text |-> DumpCategories(<< JsonMark("[") >>, data) \o << JsonMark("]") >>]

\* the place of the first mark m at or after place p of a JSON text
NextMark(text, m, p) ==
  CHOOSE q \in p..Len(text) :
    text[q].t = m /\ \A r \in p..(q - 1) : text[r].t # m

\* the string that follows the key in the object text[p..q]
ValueOfKey(text, key, p, q) ==
  text[(CHOOSE r \in p..q : text[r] = JsonString(key)) + 1].v

RECURSIVE StringValues(_)
StringValues(tokens) ==
  IF Len(tokens) = 0 THEN << >>
  ELSE << Head(tokens).v >> \o StringValues(Tail(tokens))

\* the dict json.load builds from the object text[p..q], whose list opens at b
LoadCategory(text, p, b, q) ==
  [name |-> ValueOfKey(text, "name", p, b),
   emoji |-> ValueOfKey(text, "emoji", p, b),
   keywords |-> StringValues(SubSeq(text, b + 1, q - 2))]

\* json.load(f): the list of the objects of the text from place p on
RECURSIVE LoadCategories(_, _, _)
LoadCategories(data, text, p) ==
  IF Len(data) >= 0 /\ text[p].t # "{" THEN data
  ELSE LoadCategories(
         Append(data, LoadCategory(text, p, NextMark(text, "[", p), NextMark(text, "}", p))),
         text, NextMark(text, "}", p) + 1)

LoadedData(file) == LoadCategories(<< >>, file.text, 2)

(***************************************************************************)
(* ai/categorizer.py: the built-in category table (emoji written as its    *)
(* code point)                                                             *)
(***************************************************************************)
DEFAULT_CATEGORY_DATA ==
  <<
  [name |-> "Food & Dining", emoji |-> "U+1F35B", keywords |->
     << "restaurant", "food", "lunch", "dinner", "breakfast", "snacks",
        "cafe", "pizza", "groceries", "meal", "coffee", "tea", "swiggy",
        "zomato", "ubereats", "grocery", "milk", "eggs", "vegetable",
        "fruit" >>],
  [name |-> "Transport", emoji |-> "U+1F697", keywords |->
     << "uber", "ola", "taxi", "metro", "bus", "train", "flight", "cab",
        "auto", "petrol", "diesel", "fuel", "toll", "parking", "commute",
        "travel" >>],
  [name |-> "Utilities & Bills", emoji |-> "U+1F4A1", keywords |->
     << "electricity", "water", "gas", "phone", "recharge", "internet",
        "wifi", "broadband", "dth", "postpaid", "prepaid", "bill",
        "utility" >>],
  [name |-> "Shopping", emoji |-> "U+1F6CD", keywords |->
     << "amazon", "flipkart", "myntra", "shopping", "clothes", "apparel",
        "shoes", "bags", "fashion", "accessory", "mall", "purchase" >>],
  [name |-> "Entertainment", emoji |-> "U+1F3AC", keywords |->
     << "movie", "netflix", "hotstar", "prime", "cinema", "entertainment",
        "music", "spotify", "concert", "game", "pubg", "bookmyshow", "fun",
        "party" >>],
  [name |-> "Medical & Health", emoji |-> "U+1F48A", keywords |->
     << "doctor", "medicine", "pharmacy", "hospital", "clinic", "health",
        "appointment", "test", "surgery", "fitness", "gym", "yoga",
        "medication" >>],
  [name |-> "Gifts & Donations", emoji |-> "U+1F381", keywords |->
     << "gift", "donation", "charity", "ngo", "help", "birthday", "present",
        "wedding", "anniversary", "contribution" >>],
  [name |-> "Children & Education", emoji |-> "U+1F392", keywords |->
     << "school", "tuition", "education", "exam", "fees", "books",
        "stationery", "college", "child", "student", "course", "learning" >>],
  [name |-> "Investment & Savings", emoji |-> "U+1F4B9", keywords |->
     << "investment", "mutual fund", "sip", "stocks", "shares", "fd", "rd",
        "deposit", "nps", "insurance", "lic", "policy", "savings" >>],
  [name |-> "Personal Care", emoji |-> "U+1F9F4", keywords |->
     << "salon", "spa", "haircut", "beauty", "parlour", "grooming",
        "cosmetics", "skincare" >>],
  [name |-> "Home & Rent", emoji |-> "U+1F3E0", keywords |->
     << "rent", "maintenance", "society", "home", "repair", "furniture",
        "decor", "appliance" >>],
  [name |-> "Other", emoji |-> "U+1F516", keywords |->
     << "miscellaneous", "other", "unknown", "uncategorized" >>]
  >>

(***************************************************************************)
(* Insertion-ordered dictionaries (defaultdict) as sequences of entries.    *)
(* The loops are tail recursions over the list; each level evaluates its   *)
(* accumulator first (Len(acc) >= 0), which keeps TLC's evaluation stack   *)
(* flat.                                                                   *)
(***************************************************************************)
\* position of key in an insertion-ordered dict, 0 when absent
KwPos(index, kw) ==
  IF \E i \in 1..Len(index) : index[i].kw = kw
  THEN CHOOSE i \in 1..Len(index) : index[i].kw = kw
  ELSE 0

\* CATEGORY_KEYWORDS[kw].append(name) on a defaultdict(list); i: where kw is
IndexAppendAt(index, i, kw, name) ==
  IF i = 0
  THEN Append(index, [kw |-> kw, cats |-> << name >>])
  ELSE SubSeq(index, 1, i - 1)
       \o << [kw |-> kw, cats |-> Append(index[i].cats, name)] >>
       \o SubSeq(index, i + 1, Len(index))

IndexAppend(index, kw, name) == IndexAppendAt(index, KwPos(index, kw), kw, name)

\* for kw in cat["keywords"]: CATEGORY_KEYWORDS[kw.lower()].append(cat["name"])
RECURSIVE IndexCategory(_, _, _)
IndexCategory(index, name, keywords) ==
  IF Len(index) >= 0 /\ Len(keywords) = 0 THEN index
  ELSE IndexCategory(IndexAppend(index, Lower(Head(keywords)), name),
                     name, Tail(keywords))

\* for cat in CATEGORY_DATA: ... (module initialisation)
RECURSIVE BuildIndex(_, _)
BuildIndex(index, data) ==
  IF Len(index) >= 0 /\ Len(data) = 0 THEN index
  ELSE BuildIndex(IndexCategory(index, Head(data).name, Head(data).keywords),
                  Tail(data))

\* CATEGORY_NAMES = [cat["name"] for cat in CATEGORY_DATA]
RECURSIVE NamesOf(_)
NamesOf(data) ==
  IF Len(data) = 0 THEN << >> ELSE << Head(data).name >> \o NamesOf(Tail(data))

\* position of cat in the scores dict, 0 when absent
CatPos(sc, cat) ==
  IF \E i \in 1..Len(sc) : sc[i].cat = cat
  THEN CHOOSE i \in 1..Len(sc) : sc[i].cat = cat
  ELSE 0

\* scores[cat] += w ; matched_keywords[cat].append(e) for every e of ev.
\* An entry is [cat, score, ev]; a new key is inserted at the end; i: where cat is
BumpAt(sc, i, cat, w, ev) ==
  IF i = 0
  THEN Append(sc, [cat |-> cat, score |-> w, ev |-> ev])
  ELSE SubSeq(sc, 1, i - 1)
       \o << [cat |-> cat, score |-> sc[i].score + w, ev |-> sc[i].ev \o ev] >>
       \o SubSeq(sc, i + 1, Len(sc))

Bump(sc, cat, w, ev) == BumpAt(sc, CatPos(sc, cat), cat, w, ev)

\* for cat in cats: scores[cat] += w; matched_keywords[cat].append(e)
RECURSIVE BumpAll(_, _, _, _)
BumpAll(sc, cats, w, e) ==
  IF Len(sc) >= 0 /\ Len(cats) = 0 THEN sc
  ELSE BumpAll(Bump(sc, Head(cats), w, << e >>), Tail(cats), w, e)

\* tuple comparison of two sort keys << k1, k2 >>
KeyLess(a, b) == a[1] < b[1] \/ (a[1] = b[1] /\ a[2] < b[2])

\* sorted(items, key=...): Python's sort is stable. Each element of keyed is
\* [item, key]; an element goes after every element whose key is not greater.
RECURSIVE InsertSorted(_, _)
InsertSorted(sorted, x) ==
  IF Len(sorted) = 0 THEN << x >>
  ELSE IF KeyLess(x.key, Head(sorted).key) THEN << x >> \o sorted
  ELSE << Head(sorted) >> \o InsertSorted(Tail(sorted), x)

RECURSIVE SortedByKey(_)
SortedByKey(keyed) ==
  IF Len(keyed) = 0 THEN << >>
  ELSE InsertSorted(SortedByKey(SubSeq(keyed, 1, Len(keyed) - 1)), keyed[Len(keyed)])

\* list[:n] for n >= 0
Take(list, n) == IF n < Len(list) THEN SubSeq(list, 1, n) ELSE list

(***************************************************************************)
(* Inputs of the model                                                     *)
(***************************************************************************)
MaxTopN == 2
MaxAdds == 1

TopNs == 0..MaxTopN

AiTexts == { "", "milk fees", "Paid 7500 for rent", "bought dog food", "food uber", "9000" }
NlpTexts == { "", "milk", "rent milk", "book", "puppy", "tution fees", "Paid 7500 for rent",
              "shirt" }

\* add_custom_category arguments
AddNames == { "Pets", "Food & Groceries", "Other" }
AddKeywords == { << >>, << "dog", "cat" >>, << "Food", "milk" >>, << "Dog", "dog" >> }
DEFAULT_EMOJI == "U+1F516"

\* an ai/categories.json written by the user that declares only custom categories
OverrideFiles ==
  { DumpedData(<< [name |-> "Pets", emoji |-> "U+1F436", keywords |-> << "dog", "cat" >>] >>) }

\* the threads that call get_conceptnet_isas at the same time, and their words
NThreads == 2
Threads == 1..NThreads
LookupWords == { "puppy", "pay" }

\* answers of the ConceptNet service: labels of IsA edges, a status other than
\* 200, an exception of requests.get (timeout, connection error), or a 200 whose
\* payload is no JSON or not of the expected shape
Responses ==
  { [kind |-> "ok", labels |-> << >>],
    [kind |-> "ok", labels |-> << "dog", "baby" >>],
    [kind |-> "status"],
    [kind |-> "error"],
    [kind |-> "malformed"] }

\* the answers that are failures of the lookup
Failures == { "status", "error", "malformed" }

\* the Firestore documents of ai/reminders.py: users in the order of the
\* stream with their fcm_token ("" when the user has none), their reminders
\* with the time remind_dt as a number, and the runs of process_due_reminders
NRuns == 2
MaxStarts == 3
MaxClock == 1
Runs == 1..NRuns
USER_ORDER == << "u1", "u2" >>
FCM_TOKENS == [u \in { "u1", "u2" } |-> IF u = "u1" THEN "token1" ELSE ""]
REMINDER_ORDER == << "r1", "r2", "r3" >>
REMINDERS == { "r1", "r2", "r3" }
OWNER == [rem \in REMINDERS |-> IF rem = "r3" THEN "u2" ELSE "u1"]
REMIND_DT == [rem \in REMINDERS |-> IF rem = "r2" THEN MaxClock ELSE 0]
\* `if status == 200`; the other status stands for every refusal of FCM
HTTP_OK == 200
FcmStatuses == { HTTP_OK, 500 }

(***************************************************************************)
(* ai/categorizer.py: suggest_categories                                   *)
(***************************************************************************)
KEYWORD_WEIGHT == 3
CONTEXT_WEIGHT == 2
AMOUNT_WEIGHT == 1
AMOUNT_THRESHOLD == 5000
FALLBACK_SCORE == 1

EDUCATION_WORDS == { "tuition", "school", "education", "student", "exam", "fees", "college" }
HOME_WORDS == { "rent", "maintenance", "society", "home" }

Returned(v) == [raised |-> "none", out |-> v]
Raised(e) == [raised |-> e, out |-> << >>]

\* the entries of CATEGORY_KEYWORDS.items() with `kw in text_l`, in dict order
AiHits(index, text_l) ==
  LET Hit(e) == Contains(text_l, e.kw)
  IN  SelectSeq(index, Hit)

\* for kw, cats in CATEGORY_KEYWORDS.items(): if kw in text_l:
\*     for cat in cats: scores[cat] += 3; matched_keywords[cat].append(kw)
\* (hits: the entries that pass the test; the others leave scores unchanged)
RECURSIVE AiScan(_, _)
AiScan(sc, hits) ==
  IF Len(sc) >= 0 /\ Len(hits) = 0 THEN sc
  ELSE AiScan(BumpAll(sc, Head(hits).cats, KEYWORD_WEIGHT, Head(hits).kw),
              Tail(hits))

\* number of consecutive digits of text from position i on
RECURSIVE DigitRun(_, _)
DigitRun(text, i) ==
  IF i <= Len(text) /\ IsDigit(Ch(text, i)) THEN 1 + DigitRun(text, i + 1) ELSE 0

\* re.search(r"\b\d{2,8}\b", text): the leftmost run of 2 to 8 digits that has
\* a word boundary on both sides
BareAmountStarts(text) ==
  { i \in 1..Len(text) :
      /\ IsDigit(Ch(text, i))
      /\ Boundary(text, i)
      /\ DigitRun(text, i) \in 2..8
      /\ Boundary(text, i + DigitRun(text, i)) }

\* float(match.group()) for the match that starts at i
AmountAt(text, i) == ParseNat(SubSeq(text, i, i + DigitRun(text, i) - 1))

\* found = FALSE when re.search returns None (.group() then raises)
FirstAmount(text, starts) ==
  IF starts = {} THEN [found |-> FALSE, value |-> 0]
  ELSE [found |-> TRUE,
        value |-> AmountAt(text, CHOOSE j \in starts : \A k \in starts : j <= k)]

BareAmount(text) == FirstAmount(text, BareAmountStarts(text))

\* if amt > 5000: scores["Home & Rent"] += 1; scores["Investment & Savings"] += 1
AiAmountBump(sc, m) ==
  IF m.found /\ m.value > AMOUNT_THRESHOLD
  THEN Bump(Bump(sc, "Home & Rent", AMOUNT_WEIGHT, << >>),
            "Investment & Savings", AMOUNT_WEIGHT, << >>)
  ELSE sc

\* lines 88-94: try: ... except Exception: pass
AiAmountHeuristic(sc, text_l) == AiAmountBump(sc, BareAmount(text_l))

\* lines 83-84
AiEducationHeuristic(sc, text_l) ==
  IF WordSearch(EDUCATION_WORDS, text_l)
  THEN Bump(sc, "Children & Education", CONTEXT_WEIGHT, << >>) ELSE sc

\* lines 85-86
AiHomeHeuristic(sc, text_l) ==
  IF WordSearch(HOME_WORDS, text_l)
  THEN Bump(sc, "Home & Rent", CONTEXT_WEIGHT, << >>) ELSE sc

\* lines 96-97: if not scores: scores["Other"] = 1
AiFallback(sc) ==
  IF Len(sc) = 0
  THEN << [cat |-> "Other", score |-> FALLBACK_SCORE, ev |-> << >>] >>
  ELSE sc

\* lines 75-94 on the lower-cased text: the scores accumulated before the
\* fallback test, in dict insertion order
AiAccumulated(index, text_l) ==
  AiAmountHeuristic(
    AiHomeHeuristic(
      AiEducationHeuristic(AiScan(<< >>, AiHits(index, text_l)), text_l),
      text_l),
    text_l)

\* lines 74-97
AiScores(index, text) == AiFallback(AiAccumulated(index, Lower(text)))

\* a rank key that compares the score only
ScoreOnlyKey(names, e) == << 0 - e.score, 0 >>

\* key=lambda x: (-x[1], CATEGORY_NAMES.index(x[0]))
AiRankKey(names, e) == << 0 - e.score, IndexOf(names, e.cat) >>

\* next((c["emoji"] for c in CATEGORY_DATA if c["name"] == cat), "")
EmojiAt(data, i) == IF i = 0 THEN "" ELSE data[i].emoji
EmojiOf(data, cat) == EmojiAt(data, IndexOf(NamesOf(data), cat))

AiExplanation(ev) ==
  IF Len(ev) > 0 THEN "Matched keywords: " \o Join(", ", ev)
  ELSE "No strong keyword match."

AiTuple(data, e) ==
  [cat |-> e.cat, score |-> e.score, emoji |-> EmojiOf(data, e.cat),
   explanation |-> AiExplanation(e.ev)]

\* ranked[:top_n]
AiCut(ranked, top_n) == Take(ranked, top_n)

\* lines 100-104
RECURSIVE AiOutput(_, _)
AiOutput(data, ranked) ==
  IF Len(ranked) = 0 THEN << >>
  ELSE << AiTuple(data, Head(ranked).item) >> \o AiOutput(data, Tail(ranked))

\* the items of scores with their sort keys
RECURSIVE AiKeyed(_, _)
AiKeyed(names, sc) ==
  IF Len(sc) = 0 THEN << >>
  ELSE << [item |-> Head(sc), key |-> AiRankKey(names, Head(sc))] >>
       \o AiKeyed(names, Tail(sc))

\* lines 99-105; CATEGORY_NAMES.index raises ValueError for a name not in the list
AiRank(data, names, sc, top_n) ==
  IF \E i \in 1..Len(sc) : IndexOf(names, sc[i].cat) = 0
  THEN Raised("ValueError")
  ELSE Returned(AiOutput(data, AiCut(SortedByKey(AiKeyed(names, sc)), top_n)))

\* suggest_categories(text, top_n) of ai/categorizer.py
ai_suggest_categories(data, index, names, text, top_n) ==
  AiRank(data, names, AiScores(index, text), top_n)

(***************************************************************************)
(* nlp_module/catagory.py: the category table and its derived index        *)
(***************************************************************************)
FUZZY_THRESHOLD == 85
EXACT_WEIGHT == 3
FUZZY_WEIGHT == 2
CONCEPT_WEIGHT == 1
OTHERS_SCORE == 1

NLP_CATEGORY_DATA ==
  <<
  [name |-> "Groceries", priority |-> 1, keywords |->
     << "milk", "eggs", "bread", "rice", "atta", "flour", "salt", "sugar",
        "tea", "coffee", "biscuit", "oil", "grocery", "vegetable", "fruit",
        "dal", "pulses", "tofu", "curd", "paneer" >>],
  [name |-> "Food & Dining", priority |-> 2, keywords |->
     << "restaurant", "lunch", "dinner", "breakfast", "snacks", "cafe",
        "pizza", "meal", "swiggy", "zomato", "ubereats", "biryani",
        "noodles", "thali" >>],
  [name |-> "Transport", priority |-> 3, keywords |->
     << "uber", "ola", "taxi", "metro", "bus", "train", "flight", "cab",
        "auto", "commute", "parking" >>],
  [name |-> "Utilities & Bills", priority |-> 4, keywords |->
     << "electricity", "water", "gas", "phone", "recharge", "internet",
        "wifi", "broadband", "dth", "bill" >>],
  [name |-> "Shopping", priority |-> 5, keywords |->
     << "amazon", "flipkart", "myntra", "shopping", "purchase", "mall",
        "store", "shop" >>],
  [name |-> "Clothing & Fashion", priority |-> 6, keywords |->
     << "shirt", "jeans", "dress", "clothes", "tshirt", "kurti", "saree",
        "shoes", "fashion", "apparel" >>],
  [name |-> "Entertainment", priority |-> 7, keywords |->
     << "movie", "cinema", "netflix", "prime", "hotstar", "spotify", "fun",
        "bookmyshow", "theatre" >>],
  [name |-> "Events & Subscriptions", priority |-> 8, keywords |->
     << "membership", "subscription", "ticket", "event" >>],
  [name |-> "Medical & Health", priority |-> 9, keywords |->
     << "doctor", "medicine", "pharmacy", "clinic", "hospital", "gym",
        "fitness", "yoga", "medication" >>],
  [name |-> "Personal Care", priority |-> 10, keywords |->
     << "shampoo", "soap", "toothpaste", "skincare", "cosmetic", "makeup",
        "perfume", "lotion" >>],
  [name |-> "Home Essentials", priority |-> 11, keywords |->
     << "detergent", "cleaner", "handwash", "dettol", "mop", "broom",
        "bucket" >>],
  [name |-> "Rent & Housing", priority |-> 12, keywords |->
     << "rent", "maintenance", "society", "apartment", "housing" >>],
  [name |-> "Investment & Savings", priority |-> 13, keywords |->
     << "investment", "mutual fund", "sip", "stocks", "shares", "fd", "rd",
        "deposit", "nps", "lic", "premium" >>],
  [name |-> "Education", priority |-> 14, keywords |->
     << "school", "tuition", "education", "exam", "fees", "college",
        "book" >>],
  [name |-> "Childcare", priority |-> 15, keywords |->
     << "child", "kid", "baby", "infant" >>],
  [name |-> "Work & Office", priority |-> 16, keywords |->
     << "office", "work", "job", "project" >>],
  [name |-> "Gifts & Donations", priority |-> 17, keywords |->
     << "gift", "donation", "birthday", "wedding", "present", "ngo" >>],
  [name |-> "Hobbies & Leisure", priority |-> 18, keywords |->
     << "hobby", "craft", "art", "book", "paint", "sketch", "novel" >>],
  [name |-> "Others", priority |-> 99, keywords |->
     << "miscellaneous", "unknown", "other" >>]
  >>

\* CATEGORY_PRIORITY.get(cat, 0)
NLP_CATEGORY_NAMES == NamesOf(NLP_CATEGORY_DATA)
PriorityAt(i) == IF i = 0 THEN 0 ELSE NLP_CATEGORY_DATA[i].priority
NlpPriority(cat) == PriorityAt(IndexOf(NLP_CATEGORY_NAMES, cat))

\* CATEGORY_KEYWORDS of nlp_module/catagory.py (lines 83-87)
NLP_CATEGORY_KEYWORDS == BuildIndex(<< >>, NLP_CATEGORY_DATA)

(***************************************************************************)
(* spaCy pipeline (external): nlp(text_l) and the token filter of line 122 *)
(* Tokens are the blank-separated words; is_alpha, is_stop and lemma_ are  *)
(* given for the vocabulary of the modelled texts.                         *)
(***************************************************************************)
\* length of the leading run of non-blank characters
RECURSIVE WordLen(_)
WordLen(s) ==
  IF Len(s) = 0 \/ IsSpace(Ch(s, 1)) THEN 0 ELSE 1 + WordLen(SubSeq(s, 2, Len(s)))

RECURSIVE SplitWords(_)
SplitAt(s, n) == << SubSeq(s, 1, n) >> \o SplitWords(SubSeq(s, n + 1, Len(s)))
SplitWords(s) ==
  IF Len(s) = 0 THEN << >>
  ELSE IF IsSpace(Ch(s, 1)) THEN SplitWords(SubSeq(s, 2, Len(s)))
  ELSE SplitAt(s, WordLen(s))

\* token.is_alpha
IsAlphaWord(w) == Len(w) > 0 /\ \A i \in 1..Len(w) : IsAlpha(Ch(w, i))

\* token.is_stop (the stop words that occur in the modelled texts)
STOP_WORDS == { "for", "the", "a", "an", "and", "of", "to", "in", "on" }

\* token.lemma_ (the inflected forms that occur in the modelled texts)
Lemma(w) ==
  CASE w = "paid"   -> "pay"
    [] w = "bought" -> "buy"
    [] w = "fees"   -> "fee"
    [] w = "books"  -> "book"
    [] w = "eggs"   -> "egg"
    [] OTHER        -> w

\* tokens = [token.lemma_ for token in doc if token.is_alpha and not token.is_stop]
RECURSIVE Lemmas(_)
Lemmas(words) ==
  IF Len(words) = 0 THEN << >> ELSE << Lemma(Head(words)) >> \o Lemmas(Tail(words))

NlpKeep(w) == IsAlphaWord(w) /\ w \notin STOP_WORDS

NlpTokens(text_l) == Lemmas(SelectSeq(SplitWords(text_l), NlpKeep))

(***************************************************************************)
(* fuzzywuzzy.fuzz.ratio (external): int(round(100 * 2*M/T)), M the total  *)
(* size of the matching blocks of difflib.SequenceMatcher                  *)
(***************************************************************************)
\* the common blocks << i, j, k >> : a[i..i+k-1] = b[j..j+k-1], k >= 1
CommonBlocks(a, b) ==
  { t \in (1..Len(a)) \X (1..Len(b)) \X (1..Len(a)) :
      /\ t[1] + t[3] - 1 <= Len(a)
      /\ t[2] + t[3] - 1 <= Len(b)
      /\ SubSeq(a, t[1], t[1] + t[3] - 1) = SubSeq(b, t[2], t[2] + t[3] - 1) }

\* find_longest_match: the longest block, the earliest in a, then the earliest in b
LongestOf(blocks) ==
  CHOOSE t \in blocks :
    \A u \in blocks :
       \/ t[3] > u[3]
       \/ (t[3] = u[3] /\ t[1] < u[1])
       \/ (t[3] = u[3] /\ t[1] = u[1] /\ t[2] <= u[2])

\* sum of the sizes of get_matching_blocks(): the longest block, then the same
\* to its left and to its right
RECURSIVE MatchSize(_, _)
MatchAround(a, b, t) ==
  t[3] + MatchSize(SubSeq(a, 1, t[1] - 1), SubSeq(b, 1, t[2] - 1))
       + MatchSize(SubSeq(a, t[1] + t[3], Len(a)), SubSeq(b, t[2] + t[3], Len(b)))

MatchBlocks(a, b, blocks) ==
  IF blocks = {} THEN 0 ELSE MatchAround(a, b, LongestOf(blocks))

MatchSize(a, b) ==
  IF Len(a) = 0 \/ Len(b) = 0 THEN 0 ELSE MatchBlocks(a, b, CommonBlocks(a, b))

\* Python round(): to the nearest integer, halves to the even one
RoundHalfEven(num, den) ==
  IF 2 * (num % den) > den \/ (2 * (num % den) = den /\ (num \div den) % 2 = 1)
  THEN (num \div den) + 1
  ELSE num \div den

\* fuzz.ratio(s1, s2); 0 when either string is empty
FuzzRatio(a, b) ==
  IF Len(a) = 0 \/ Len(b) = 0 THEN 0
  ELSE RoundHalfEven(200 * MatchSize(a, b), Len(a) + Len(b))

(***************************************************************************)
(* nlp_module/catagory.py: get_conceptnet_isas                             *)
(* A cache is a function token -> list of labels; a response of the        *)
(* external service is                                                     *)
(*   [kind |-> "ok", labels |-> l]  status 200, l the IsA labels in the    *)
(*                                  iteration order of the set `isas`      *)
(*   [kind |-> "status"]            a status other than 200                *)
(*   [kind |-> "error"]             timeout, connection error, bad payload *)
(***************************************************************************)
EmptyCache == [t \in {} |-> << >>]

\* a thread outside get_conceptnet_isas
Idle == [pc |-> "idle", word |-> "", buf |-> EmptyCache]

\* conceptnet_cache[word] = value
CachePut(cache, word, value) ==
  [t \in (DOMAIN cache) \cup {word} |-> IF t = word THEN value ELSE cache[t]]

\* json.dump(conceptnet_cache, f): the file holds the mapping
Dumped(cache) == [kind |-> "map", map |-> cache]

\* lines 16-20: try: json.load(f) except: {}
LoadCache(file) == IF file.kind = "map" THEN file.map ELSE EmptyCache

\* what the miss path stores in memory (lines 95-105), FALSE when nothing
MissStores(resp) == resp.kind \in { "ok", "status" }

\* whether the miss path rewrites the cache file (lines 106-107)
MissPersists(resp) == resp.kind = "ok"

\* a miss path that hands a label back on a failure
MissValueLeaky(resp) == IF resp.kind = "ok" THEN resp.labels ELSE << "baby" >>

\* the value the miss path computes (lines 98-105), [] on the other paths
MissValue(resp) == IF resp.kind = "ok" THEN resp.labels ELSE << >>

\* the miss path (lines 92-110)
Miss(cache, file, word, resp) ==
  [ret       |-> MissValue(resp),
   cache     |-> IF MissStores(resp) THEN CachePut(cache, word, MissValue(resp)) ELSE cache,
   file      |-> IF MissPersists(resp)
                 THEN Dumped(CachePut(cache, word, MissValue(resp))) ELSE file,
   requested |-> TRUE,
   outcome   |-> resp.kind]

\* get_conceptnet_isas(word): the value returned, the cache and the file after
\* the call, and whether the external request was made
get_conceptnet_isas(cache, file, word, resp) ==
  IF word \in DOMAIN cache
  THEN [ret |-> cache[word], cache |-> cache, file |-> file, requested |-> FALSE,
        outcome |-> "hit"]
  ELSE Miss(cache, file, word, resp)

(***************************************************************************)
(* nlp_module/catagory.py: suggest_categories                              *)
(***************************************************************************)
\* the tests of lines 131 and 136 for one index entry
NlpIsExact(token, kw) == token = kw
NlpIsFuzzy(token, kw) == token # kw /\ FuzzRatio(token, kw) >= FUZZY_THRESHOLD
NlpHit(token, kw) == NlpIsExact(token, kw) \/ NlpIsFuzzy(token, kw)

\* the entries of CATEGORY_KEYWORDS.items() that token matches, in dict order
NlpTokenHits(token) ==
  LET Hit(e) == NlpHit(token, e.kw)
  IN  SelectSeq(NLP_CATEGORY_KEYWORDS, Hit)

\* lines 132-135 and 137-140 for one matching entry
NlpLexicalBump(sc, token, e) ==
  IF NlpIsExact(token, e.kw)
  THEN BumpAll(sc, e.cats, EXACT_WEIGHT, e.kw \o " (exact)")
  ELSE BumpAll(sc, e.cats, FUZZY_WEIGHT, token \o " ~ " \o e.kw \o " (fuzzy)")

\* lines 130-140 over the matching entries
RECURSIVE NlpLexical(_, _, _)
NlpLexical(sc, token, hits) ==
  IF Len(sc) >= 0 /\ Len(hits) = 0 THEN sc
  ELSE NlpLexical(NlpLexicalBump(sc, token, Head(hits)), token, Tail(hits))

\* lines 147-151 for one concept; i: where the concept is in CATEGORY_KEYWORDS
NlpConceptBump(sc, token, concept, i, seen) ==
  IF i > 0 /\ concept \notin seen
  THEN BumpAll(sc, NLP_CATEGORY_KEYWORDS[i].cats, CONCEPT_WEIGHT,
               token \o " -> " \o concept \o " (ConceptNet)")
  ELSE sc

\* lines 144-151: for concept in isas: for kw, cats in ...: if concept == kw and
\* (token, concept) not in seen_concepts: ...
RECURSIVE NlpSemantic(_, _, _, _)
NlpSemantic(sc, token, isas, seen) ==
  IF Len(sc) >= 0 /\ Len(isas) = 0 THEN sc
  ELSE NlpSemantic(
         NlpConceptBump(sc, token, Head(isas), KwPos(NLP_CATEGORY_KEYWORDS, Head(isas)), seen),
         token, Tail(isas),
         IF KwPos(NLP_CATEGORY_KEYWORDS, Head(isas)) > 0 THEN seen \cup {Head(isas)} ELSE seen)

\* NlpTokenHits for every token of the modelled texts, evaluated once
Elements(list) == { list[i] : i \in 1..Len(list) }
NlpVocabulary == UNION { Elements(NlpTokens(Lower(t))) : t \in NlpTexts }

NlpHitTable == [token \in NlpVocabulary |-> NlpTokenHits(token)]

\* lines 142-151 with the outcome g of get_conceptnet_isas(token)
NlpLookupStep(st, token, g) ==
  [sc    |-> NlpSemantic(st.sc, token, g.ret, {}),
   cache |-> g.cache,
   file  |-> g.file,
   log   |-> Append(st.log, [token |-> token, requested |-> g.requested, ret |-> g.ret,
                             outcome |-> g.outcome])]

\* a token loop that never reaches the lookup of line 143
TokenMatchedAlways(hits) == Len(hits) >= 0

\* whether the lexical pass set token_matched
TokenMatched(hits) == Len(hits) > 0

\* the body of `for token in tokens` (lines 127-151). st carries the scores, the
\* cache, the cache file and the log of lookups; hits are the matching entries;
\* service gives the response of the external service for a token
NlpTokenBody(st, token, hits, service) ==
  IF TokenMatched(hits)
  THEN [st EXCEPT !.sc = NlpLexical(st.sc, token, hits)]
  ELSE NlpLookupStep(st, token,
                     get_conceptnet_isas(st.cache, st.file, token, service[token]))

NlpTokenStep(st, token, service) == NlpTokenBody(st, token, NlpHitTable[token], service)

RECURSIVE NlpTokenLoop(_, _, _)
NlpTokenLoop(st, tokens, service) ==
  IF Len(st.sc) >= 0 /\ Len(tokens) = 0 THEN st
  ELSE NlpTokenLoop(NlpTokenStep(st, Head(tokens), service), Tail(tokens), service)

\* s.split("&")[0]
FirstPart(l, amps) ==
  IF amps = {} THEN l
  ELSE SubSeq(l, 1, (CHOOSE i \in amps : \A j \in amps : i <= j) - 1)

BeforeAmp(l) == FirstPart(l, { i \in 1..Len(l) : Ch(l, i) = "&" })

\* base = cat.lower().split("&")[0].strip()
BaseKey(cat) == Strip(BeforeAmp(Lower(cat)))

\* key=lambda x: (-x[1], CATEGORY_PRIORITY.get(x[0], 0))
NlpRankKey(e) == << 0 - e.score, NlpPriority(e.cat) >>

RECURSIVE NlpKeyed(_)
NlpKeyed(sc) ==
  IF Len(sc) = 0 THEN << >>
  ELSE << [item |-> Head(sc), key |-> NlpRankKey(Head(sc))] >> \o NlpKeyed(Tail(sc))

NlpExplanation(ev) ==
  IF Len(ev) > 0 THEN Join(", ", ev) ELSE "Heuristic or ConceptNet match"

NlpTuple(e) == [cat |-> e.cat, score |-> e.score, explanation |-> NlpExplanation(e.ev)]

\* the test that ends the loop of lines 160-168
NlpFull(final, top_n) == Len(final) >= top_n

\* lines 158-168: skip the seen base keys, stop once top_n are emitted
RECURSIVE NlpEmit(_, _, _, _)
NlpEmitNew(ranked, final2, seen2, top_n) ==
  IF NlpFull(final2, top_n) THEN final2 ELSE NlpEmit(Tail(ranked), final2, seen2, top_n)

NlpEmitOne(ranked, final, seen, top_n, base) ==
  IF base \in seen THEN NlpEmit(Tail(ranked), final, seen, top_n)
  ELSE NlpEmitNew(ranked, Append(final, NlpTuple(Head(ranked).item)),
                  seen \cup {base}, top_n)

NlpEmit(ranked, final, seen, top_n) ==
  IF Len(ranked) = 0 THEN final
  ELSE NlpEmitOne(ranked, final, seen, top_n, BaseKey(Head(ranked).item.cat))

\* lines 153-154: if not scores: scores["Others"] += 1
NlpFallback(sc) ==
  IF Len(sc) = 0
  THEN << [cat |-> "Others", score |-> OTHERS_SCORE, ev |-> << >>] >>
  ELSE sc

\* lines 156-170
NlpRank(sc, top_n) == NlpEmit(SortedByKey(NlpKeyed(sc)), << >>, {}, top_n)

\* lines 153-170 after the token loop ended in st
NlpFinish(st, top_n) ==
  [out |-> NlpRank(NlpFallback(st.sc), top_n),
   cache |-> st.cache, file |-> st.file, log |-> st.log, accumulated |-> Len(st.sc)]

\* suggest_categories(text, top_n) of nlp_module/catagory.py: the list returned,
\* with the cache, the cache file, the lookups made and the number of categories
\* scored when the fallback test ran
nlp_suggest_categories(cache, file, text, top_n, service) ==
  IF Len(Strip(text)) = 0
  THEN [out |-> << [cat |-> "Others", score |-> OTHERS_SCORE,
                    explanation |-> "Empty line"] >>,
        cache |-> cache, file |-> file, log |-> << >>, accumulated |-> 0]
  ELSE NlpFinish(NlpTokenLoop([sc |-> << >>, cache |-> cache, file |-> file,
                               log |-> << >>],
                              NlpTokens(Lower(text)), service),
                 top_n)

(***************************************************************************)
(* The processes: module import, the operations, restart                   *)
(***************************************************************************)
\* ai/categorizer.py lines 55-58: the file, when it exists, replaces the table
LoadCategoryData(file) == IF file.kind = "data" THEN LoadedData(file) ELSE DEFAULT_CATEGORY_DATA

Init ==
  /\ engine \in { "ai", "nlp" }
  /\ configFile \in (IF engine = "ai" THEN {NoFile} \cup OverrideFiles ELSE {NoFile})
  /\ CATEGORY_DATA = (IF engine = "ai" THEN LoadCategoryData(configFile) ELSE << >>)
  /\ CATEGORY_KEYWORDS = BuildIndex(<< >>, CATEGORY_DATA)
  /\ CATEGORY_NAMES = NamesOf(CATEGORY_DATA)
  /\ added = 0
  /\ cacheFile = NoFile
  /\ conceptnet_cache = LoadCache(cacheFile)
  /\ lookups = << >>
  /\ answered = EmptyCache
  /\ call = [op |-> "import"]
  /\ result = Returned(<< >>)
  /\ accumulated = 0
  /\ threads = [t \in Threads |-> Idle]
  /\ fetched = {}
  /\ adder = NoAdd
  /\ reader = NoRead
  /\ amount = NoExtraction
  /\ sent = [rem \in REMINDERS |-> FALSE]
  /\ clock = 0
  /\ runs = [r \in Runs |-> NoRun]
  /\ delivered = [rem \in REMINDERS |-> 0]
  /\ push = NoPush
  /\ started = 0

\* suggest_categories(text, top_n) of ai/categorizer.py
AiSuggest(text, top_n) ==
  /\ engine = "ai"
  /\ call' = [op |-> "suggest", text |-> text, top_n |-> top_n]
  /\ result' = ai_suggest_categories(CATEGORY_DATA, CATEGORY_KEYWORDS, CATEGORY_NAMES,
                                     text, top_n)
  /\ accumulated' = Len(AiAccumulated(CATEGORY_KEYWORDS, Lower(text)))
  /\ UNCHANGED << engine, aiVars, nlpVars, threadVars >>

\* new_cat (lines 111-115)
NewCategory(name, emoji, keywords) ==
  [name |-> name, emoji |-> emoji, keywords |-> keywords]

\* add_custom_category(name, emoji, keywords), lines 111-122
AddCustomCategory(name, emoji, keywords) ==
  /\ engine = "ai"
  /\ added < MaxAdds
  /\ CATEGORY_DATA' = Append(CATEGORY_DATA, NewCategory(name, emoji, keywords))
  /\ CATEGORY_KEYWORDS' = IndexCategory(CATEGORY_KEYWORDS, name, keywords)
  /\ CATEGORY_NAMES' = Append(CATEGORY_NAMES, name)
  /\ configFile' = DumpedData(CATEGORY_DATA')
  /\ added' = added + 1
  /\ call' = [op |-> "add", name |-> name, keywords |-> keywords]
  /\ result' = Returned(<< >>)
  /\ accumulated' = 0
  /\ UNCHANGED << engine, nlpVars, threadVars >>

\* the process ends and ai/categorizer.py is imported again (lines 55-65)
AiRestart ==
  /\ engine = "ai"
  /\ CATEGORY_DATA' = LoadCategoryData(configFile)
  /\ CATEGORY_KEYWORDS' = BuildIndex(<< >>, CATEGORY_DATA')
  /\ CATEGORY_NAMES' = NamesOf(CATEGORY_DATA')
  /\ call' = [op |-> "import"]
  /\ result' = Returned(<< >>)
  /\ accumulated' = 0
  /\ UNCHANGED << engine, configFile, added, nlpVars, threadVars >>

\* the tokens of text for which a call starting with this cache asks the service
RequestTokens(cache, text) ==
  IF Len(Strip(text)) = 0 THEN {}
  ELSE { tok \in Elements(NlpTokens(Lower(text))) :
           ~TokenMatched(NlpHitTable[tok]) /\ tok \notin DOMAIN cache }

\* history: the first value returned for each token
RECURSIVE Record(_, _)
Record(ans, log) ==
  IF Len(log) = 0 THEN ans
  ELSE Record(IF Head(log).token \in DOMAIN ans THEN ans
              ELSE CachePut(ans, Head(log).token, Head(log).ret),
              Tail(log))

\* suggest_categories(text, top_n) of nlp_module/catagory.py
NlpReturn(r) ==
  /\ result' = Returned(r.out)
  /\ conceptnet_cache' = r.cache
  /\ cacheFile' = r.file
  /\ lookups' = r.log
  /\ answered' = Record(answered, r.log)
  /\ accumulated' = r.accumulated

NlpSuggest(text, top_n, service) ==
  /\ engine = "nlp"
  /\ NlpReturn(nlp_suggest_categories(conceptnet_cache, cacheFile, text, top_n, service))
  /\ call' = [op |-> "suggest", text |-> text, top_n |-> top_n]
  /\ UNCHANGED << engine, aiVars, threadVars >>

\* the process ends and nlp_module/catagory.py is imported again (lines 16-20)
NlpRestart ==
  /\ engine = "nlp"
  /\ conceptnet_cache' = LoadCache(cacheFile)
  /\ lookups' = << >>
  /\ call' = [op |-> "import"]
  /\ result' = Returned(<< >>)
  /\ accumulated' = 0
  /\ UNCHANGED << engine, aiVars, cacheFile, answered, threadVars >>

(***************************************************************************)
(* get_conceptnet_isas called from several threads: the statements of      *)
(* lines 89-110 interleave, nothing in the module takes a lock             *)
(***************************************************************************)
At(t, pc, word, buf) == [threads EXCEPT ![t] = [pc |-> pc, word |-> word, buf |-> buf]]

\* the length of json.dump(value, f, indent=2) for a list of labels
RECURSIVE LabelsLen(_)
LabelsLen(labels) ==
  IF Len(labels) = 0 THEN 0
  ELSE 4 + 2 + Len(Head(labels)) + (IF Len(labels) > 1 THEN 2 ELSE 0) + LabelsLen(Tail(labels))

ListLen(labels) == IF Len(labels) = 0 THEN 2 ELSE 2 + LabelsLen(labels) + 4

\* the length of json.dump(cache, f, indent=2)
RECURSIVE EntriesLen(_, _)
EntriesLen(cache, words) ==
  IF words = {} THEN 0
  ELSE LET w == CHOOSE x \in words : TRUE
       IN  2 + 2 + Len(w) + 2 + ListLen(cache[w]) + (IF words = {w} THEN 0 ELSE 2)
           + EntriesLen(cache, words \ {w})

JsonLen(cache) ==
  IF DOMAIN cache = {} THEN 2 ELSE 2 + EntriesLen(cache, DOMAIN cache) + 2

\* the bytes in the cache file
FileLen(file) ==
  IF file.kind = "map" THEN JsonLen(file.map)
  ELSE IF file.kind = "garbage" THEN file.len
  ELSE 0

\* open(CONCEPTNET_CACHE_FILE, "w") leaves the file empty
Truncated == [kind |-> "truncated"]

\* the buffered text written at offset 0 when the handle closes: bytes another
\* handle wrote beyond it stay in the file
Flushed(file, buf) ==
  IF FileLen(file) <= JsonLen(buf) THEN Dumped(buf)
  ELSE [kind |-> "garbage", len |-> FileLen(file)]

\* what the sequential engine alone changes
seqVars == << engine, aiVars, lookups, answered, call, result, accumulated, sideVars >>

\* lines 90-91: the call and its test of the cache; a hit returns at once
Lookup(t, word) ==
  /\ threads[t].pc = "idle"
  /\ threads' = IF word \in DOMAIN conceptnet_cache THEN threads
                ELSE At(t, "request", word, EmptyCache)
  /\ UNCHANGED << conceptnet_cache, cacheFile, fetched, seqVars >>

\* lines 92-105 and 108-110: the response arrives
Respond(t, resp) ==
  /\ threads[t].pc = "request"
  /\ conceptnet_cache' = IF MissStores(resp)
                         THEN CachePut(conceptnet_cache, threads[t].word, MissValue(resp))
                         ELSE conceptnet_cache
  /\ threads' = IF MissPersists(resp) THEN At(t, "open", threads[t].word, EmptyCache)
                ELSE At(t, "idle", "", EmptyCache)
  /\ fetched' = IF MissPersists(resp) THEN fetched \cup {threads[t].word} ELSE fetched
  /\ UNCHANGED << cacheFile, seqVars >>

\* line 106: with open(CONCEPTNET_CACHE_FILE, "w") as f
Open(t) ==
  /\ threads[t].pc = "open"
  /\ cacheFile' = Truncated
  /\ threads' = At(t, "dump", threads[t].word, EmptyCache)
  /\ UNCHANGED << conceptnet_cache, fetched, seqVars >>

\* line 107: json.dump(conceptnet_cache, f, indent=2) into the handle's buffer
Dump(t) ==
  /\ threads[t].pc = "dump"
  /\ threads' = At(t, "close", threads[t].word, conceptnet_cache)
  /\ UNCHANGED << conceptnet_cache, cacheFile, fetched, seqVars >>

\* the end of the with block: the buffer is flushed and the handle closed
Close(t) ==
  /\ threads[t].pc = "close"
  /\ cacheFile' = Flushed(cacheFile, threads[t].buf)
  /\ threads' = At(t, "idle", "", EmptyCache)
  /\ UNCHANGED << conceptnet_cache, fetched, seqVars >>

\* the process ends while every thread is idle, and the module is imported again
CacheRestart ==
  /\ \A t \in Threads : threads[t].pc = "idle"
  /\ conceptnet_cache' = LoadCache(cacheFile)
  /\ UNCHANGED << cacheFile, threads, fetched, seqVars >>

InitCache == Init /\ engine = "nlp"

NextCache ==
  \/ \E t \in Threads, word \in LookupWords : Lookup(t, word)
  \/ \E t \in Threads, resp \in Responses : Respond(t, resp)
  \/ \E t \in Threads : Open(t)
  \/ \E t \in Threads : Dump(t)
  \/ \E t \in Threads : Close(t)
  \/ CacheRestart

SpecCache == InitCache /\ [][NextCache]_vars

Next ==
  \/ \E text \in AiTexts, top_n \in TopNs : AiSuggest(text, top_n)
  \/ \E name \in AddNames, keywords \in AddKeywords :
        AddCustomCategory(name, DEFAULT_EMOJI, keywords)
  \/ AiRestart
  \/ \E text \in NlpTexts, top_n \in TopNs :
        \E service \in [RequestTokens(conceptnet_cache, text) -> Responses] :
           NlpSuggest(text, top_n, service)
  \/ NlpRestart

Spec == Init /\ [][Next]_vars

(***************************************************************************)
(* add_custom_category running while another thread runs suggest_categories *)
(* of ai/categorizer.py: the statements of lines 111-122 interleave with    *)
(* the reads of lines 77 and 99-104, nothing in the module takes a lock     *)
(***************************************************************************)
\* what the two threads leave alone
addFrame == << engine, nlpVars, call, result, accumulated, threads, fetched, amount,
              remVars >>

\* the registry: the category list, the keyword index and the name order
Registry(data, index, names) == [data |-> data, index |-> index, names |-> names]

\* the registry once add_custom_category(name, emoji, keywords) has run on reg
RegistryAfter(reg, name, emoji, keywords) ==
  Registry(Append(reg.data, NewCategory(name, emoji, keywords)),
           IndexCategory(reg.index, name, keywords),
           Append(reg.names, name))

\* what suggest_categories(text, top_n) gives when it runs alone on reg
SuggestOn(reg, text, top_n) ==
  ai_suggest_categories(reg.data, reg.index, reg.names, text, top_n)

\* history: the results of the call on the registry before and after the add
\* that is under way
Atomically(a, text, top_n) ==
  { SuggestOn(a.before, text, top_n),
    SuggestOn(RegistryAfter(a.before, a.name, DEFAULT_EMOJI, a.keywords), text, top_n) }

\* lines 111-116: new_cat is built and appended to CATEGORY_DATA
AddStart(name, keywords) ==
  /\ adder.pc = "idle"
  /\ added < MaxAdds
  /\ CATEGORY_DATA' = Append(CATEGORY_DATA, NewCategory(name, DEFAULT_EMOJI, keywords))
  /\ adder' = [pc |-> "index", name |-> name, keywords |-> keywords, rest |-> keywords,
               before |-> Registry(CATEGORY_DATA, CATEGORY_KEYWORDS, CATEGORY_NAMES)]
  /\ reader' = IF reader.pc = "scanned"
               THEN [reader EXCEPT !.allowed = @ \cup Atomically(adder', reader.text, reader.top_n)]
               ELSE reader
  /\ UNCHANGED << CATEGORY_KEYWORDS, CATEGORY_NAMES, configFile, added, addFrame >>

\* lines 117-118, one keyword: CATEGORY_KEYWORDS[kw.lower()].append(name)
AddIndex ==
  /\ adder.pc = "index"
  /\ Len(adder.rest) > 0
  /\ CATEGORY_KEYWORDS' = IndexAppend(CATEGORY_KEYWORDS, Lower(Head(adder.rest)), adder.name)
  /\ adder' = [adder EXCEPT !.rest = Tail(@)]
  /\ UNCHANGED << CATEGORY_DATA, CATEGORY_NAMES, configFile, added, reader, addFrame >>

\* line 119: CATEGORY_NAMES.append(name)
AddName ==
  /\ adder.pc = "index"
  /\ Len(adder.rest) = 0
  /\ CATEGORY_NAMES' = Append(CATEGORY_NAMES, adder.name)
  /\ adder' = [adder EXCEPT !.pc = "persist"]
  /\ UNCHANGED << CATEGORY_DATA, CATEGORY_KEYWORDS, configFile, added, reader, addFrame >>

\* lines 121-122: the registry is written to ai/categories.json; the call returns
AddPersist ==
  /\ adder.pc = "persist"
  /\ configFile' = DumpedData(CATEGORY_DATA)
  /\ added' = added + 1
  /\ adder' = NoAdd
  /\ UNCHANGED << CATEGORY_DATA, CATEGORY_KEYWORDS, CATEGORY_NAMES, reader, addFrame >>

\* lines 74-97: the reader scans CATEGORY_KEYWORDS and applies the heuristics
ReadScan(text, top_n) ==
  /\ reader.pc \in { "idle", "done" }
  /\ reader' = [pc |-> "scanned", text |-> text, top_n |-> top_n,
                scores |-> AiScores(CATEGORY_KEYWORDS, text),
                allowed |-> IF adder.pc = "idle"
                            THEN { SuggestOn(Registry(CATEGORY_DATA, CATEGORY_KEYWORDS,
                                                      CATEGORY_NAMES), text, top_n) }
                            ELSE Atomically(adder, text, top_n),
                out |-> Returned(<< >>)]
  /\ UNCHANGED << aiVars, adder, addFrame >>

\* lines 99-105: the reader ranks by CATEGORY_NAMES and reads CATEGORY_DATA
ReadRank ==
  /\ reader.pc = "scanned"
  /\ reader' = [reader EXCEPT !.pc = "done",
                              !.out = AiRank(CATEGORY_DATA, CATEGORY_NAMES,
                                             reader.scores, reader.top_n)]
  /\ UNCHANGED << aiVars, adder, addFrame >>

InitAdd == Init /\ engine = "ai"

NextAdd ==
  \/ \E name \in AddNames, keywords \in AddKeywords : AddStart(name, keywords)
  \/ AddIndex
  \/ AddName
  \/ AddPersist
  \/ \E text \in AiTexts, top_n \in TopNs : ReadScan(text, top_n)
  \/ ReadRank

SpecAdd == InitAdd /\ [][NextAdd]_vars

(***************************************************************************)
(* The amount of a text: extract_amount of nlp_module/catagory.py and the   *)
(* amount step of suggest_categories of ai/categorizer.py                   *)
(***************************************************************************)
\* the character that stands for the rupee sign U+20B9 in the modelled texts
RUPEE_SIGN == "#"

\* (?:RUPEE|Rs\.?|INR) under re.IGNORECASE: the lower-cased alternatives
CURRENCY_MARKS == { RUPEE_SIGN, "rs.", "rs", "inr" }

\* whether mark m is at place i of the text
MarkAt(text, i, m) ==
  /\ i + Len(m) - 1 <= Len(text)
  /\ Lower(SubSeq(text, i, i + Len(m) - 1)) = m

\* \s? at place j: where the digits have to begin
AfterBlank(text, j) == IF j <= Len(text) /\ IsSpace(Ch(text, j)) THEN j + 1 ELSE j

\* (\d{2,8}) from place j on: the number of digits captured, 0 when no match
Captured(text, j) ==
  IF DigitRun(text, j) < 2 THEN 0
  ELSE IF DigitRun(text, j) > 8 THEN 8 ELSE DigitRun(text, j)

\* the places where the pattern matches, and the marks that match there
MarksAt(text, i) ==
  { m \in CURRENCY_MARKS :
      MarkAt(text, i, m) /\ Captured(text, AfterBlank(text, i + Len(m))) > 0 }

MarkedStarts(text) == { i \in 1..Len(text) : MarksAt(text, i) # {} }

\* the group captured by the match that starts at i with mark m, as a number
MarkedGroup(text, j) == ParseNat(SubSeq(text, j, j + Captured(text, j) - 1))
MarkedAmountAt(text, i, m) == MarkedGroup(text, AfterBlank(text, i + Len(m)))

\* a number, and the value None
Number(n) == [kind |-> "number", value |-> n]
None == [kind |-> "None"]

\* match[-1] of re.findall: the group of the last match
LastMarked(text, starts) ==
  MarkedAmountAt(text, CHOOSE i \in starts : \A k \in starts : k <= i,
                 CHOOSE m \in MarksAt(text, CHOOSE i \in starts : \A k \in starts : k <= i) : TRUE)

\* extract_amount(text): float(match[-1]) if match else 0.0
extract_amount(text) ==
  IF MarkedStarts(text) = {} THEN Number(0)
  ELSE Number(LastMarked(text, MarkedStarts(text)))

\* lines 88-94 of ai/categorizer.py: amt, or nothing when re.search finds none
AiAmountOf(m) == IF m.found THEN Number(m.value) ELSE None
ai_amount(text) == AiAmountOf(BareAmount(Lower(text)))

\* the texts: two pieces of a receipt line, one after the other
AmountPieces ==
  { "", "total ", "20 ", "Rs.120 ", "rs 7500 ", "INR9000 ", "#45 ", "#00 ",
    "Rs 123456789 ", "rs  50 " }
AmountTexts == { a \o b : a \in AmountPieces, b \in AmountPieces }

amountFrame == << engine, aiVars, nlpVars, call, result, accumulated, threads, fetched,
                 adder, reader, remVars >>

\* a call of extract_amount(text)
ExtractAmount(text) ==
  /\ amount' = [op |-> "extract", text |-> text, ret |-> extract_amount(text)]
  /\ UNCHANGED amountFrame

\* the amount step of suggest_categories(text) of ai/categorizer.py
AiAmount(text) ==
  /\ amount' = [op |-> "ai", text |-> text, ret |-> ai_amount(text)]
  /\ UNCHANGED amountFrame

InitAmount == Init /\ engine = "nlp"

NextAmount ==
  \/ \E text \in AmountTexts : ExtractAmount(text)
  \/ \E text \in AmountTexts : AiAmount(text)

SpecAmount == InitAmount /\ [][NextAmount]_vars

(***************************************************************************)
(* ai/reminders.py: process_due_reminders, run by a periodic job; a run    *)
(* may start while the previous one has not ended. Firestore holds the     *)
(* users and their reminders; a query returns the documents as they were   *)
(* when it ran (rem.to_dict() is that copy)                                *)
(***************************************************************************)
\* what a run of process_due_reminders leaves alone
remFrame == << engine, aiVars, nlpVars, call, result, accumulated, threads, fetched,
              adder, reader, amount >>

\* users = db.collection("users").stream(), with the token read at line 124
UsersOf(order) == [i \in 1..Len(order) |-> [id |-> order[i], token |-> FCM_TOKENS[order[i]]]]

\* .collection("reminders").where("sent", "==", False).stream() for one user
UnsentOf(user, sentNow) ==
  LET Test(rem) == OWNER[rem] = user /\ ~sentNow[rem]
  IN  SelectSeq(REMINDER_ORDER, Test)

\* rem_dt <= now and not data.get("sent"), on the copy the query returned
IsDue(rem, now) == REMIND_DT[rem] <= now

\* lines 119-120: the users are read and now is taken once; key: whether
\* FCM_SERVER_KEY is set in the environment of the process
Start(r, key) ==
  /\ runs[r].pc = "idle"
  /\ started < MaxStarts
  /\ started' = started + 1
  /\ runs' = [runs EXCEPT ![r] = [pc |-> "users", now |-> clock, key |-> key,
                                  users |-> UsersOf(USER_ORDER)]]
  /\ UNCHANGED << sent, clock, delivered, push, remFrame >>

\* lines 121-126: a user without token is skipped
SkipUser(r) ==
  /\ runs[r].pc = "users"
  /\ Len(runs[r].users) > 0
  /\ Len(Head(runs[r].users).token) = 0
  /\ runs' = [runs EXCEPT ![r].users = Tail(runs[r].users)]
  /\ UNCHANGED << sent, clock, delivered, push, started, remFrame >>

\* lines 127-128: the unsent reminders of the user are read
Query(r) ==
  /\ runs[r].pc = "users"
  /\ Len(runs[r].users) > 0
  /\ Len(Head(runs[r].users).token) > 0
  /\ runs' = [runs EXCEPT ![r] =
                [pc |-> "reminders", now |-> runs[r].now, key |-> runs[r].key,
                 users |-> Tail(runs[r].users), token |-> Head(runs[r].users).token,
                 reminders |-> UnsentOf(Head(runs[r].users).id, sent)]]
  /\ UNCHANGED << sent, clock, delivered, push, started, remFrame >>

\* the run after the reminder at the head of its list
Continue(r) == [runs EXCEPT ![r].reminders = Tail(runs[r].reminders)]

\* line 133 is false: the reminder is not due
NotDue(r) ==
  /\ runs[r].pc = "reminders"
  /\ Len(runs[r].reminders) > 0
  /\ ~IsDue(Head(runs[r].reminders), runs[r].now)
  /\ runs' = Continue(r)
  /\ UNCHANGED << sent, clock, delivered, push, started, remFrame >>

\* send_fcm_push without FCM_SERVER_KEY (lines 92-94): 401, nothing is sent
NoKey(r) ==
  /\ runs[r].pc = "reminders"
  /\ Len(runs[r].reminders) > 0
  /\ IsDue(Head(runs[r].reminders), runs[r].now)
  /\ ~runs[r].key
  /\ runs' = Continue(r)
  /\ UNCHANGED << sent, clock, delivered, push, started, remFrame >>

\* what is recorded of a request to FCM
Pushed(r, rem, status) ==
  [op |-> "push", run |-> r, rem |-> rem, status |-> status, now |-> runs[r].now,
   token |-> runs[r].token, sent |-> sent[rem]]

\* lines 135-141: send_fcm_push posts the notification (line 108) and FCM
\* answers with status; 200 leads to the update of line 142
SendFcmPush(r, status) ==
  /\ runs[r].pc = "reminders"
  /\ Len(runs[r].reminders) > 0
  /\ IsDue(Head(runs[r].reminders), runs[r].now)
  /\ runs[r].key
  /\ push' = Pushed(r, Head(runs[r].reminders), status)
  /\ delivered' = IF status = HTTP_OK
                  THEN [delivered EXCEPT ![Head(runs[r].reminders)] = @ + 1]
                  ELSE delivered
  /\ runs' = IF status = HTTP_OK THEN [runs EXCEPT ![r].pc = "update"] ELSE Continue(r)
  /\ UNCHANGED << sent, clock, started, remFrame >>

\* requests.post raises (line 108): the exception ends the run
PostRaises(r) ==
  /\ runs[r].pc = "reminders"
  /\ Len(runs[r].reminders) > 0
  /\ IsDue(Head(runs[r].reminders), runs[r].now)
  /\ runs[r].key
  /\ runs' = [runs EXCEPT ![r] = NoRun]
  /\ UNCHANGED << sent, clock, delivered, push, started, remFrame >>

\* line 142: rem.reference.update({"sent": True})
MarkSent(r) ==
  /\ runs[r].pc = "update"
  /\ sent' = [sent EXCEPT ![Head(runs[r].reminders)] = TRUE]
  /\ runs' = [Continue(r) EXCEPT ![r].pc = "reminders"]
  /\ UNCHANGED << clock, delivered, push, started, remFrame >>

\* the reminders of the user are exhausted: next user
EndUser(r) ==
  /\ runs[r].pc = "reminders"
  /\ Len(runs[r].reminders) = 0
  /\ runs' = [runs EXCEPT ![r] = [pc |-> "users", now |-> runs[r].now, key |-> runs[r].key,
                                  users |-> runs[r].users]]
  /\ UNCHANGED << sent, clock, delivered, push, started, remFrame >>

\* the users are exhausted: process_due_reminders returns
EndRun(r) ==
  /\ runs[r].pc = "users"
  /\ Len(runs[r].users) = 0
  /\ runs' = [runs EXCEPT ![r] = NoRun]
  /\ UNCHANGED << sent, clock, delivered, push, started, remFrame >>

\* time passes
Tick ==
  /\ clock < MaxClock
  /\ clock' = clock + 1
  /\ UNCHANGED << sent, runs, delivered, push, started, remFrame >>

InitReminders == Init /\ engine = "ai" /\ configFile = NoFile

NextReminders ==
  \/ \E r \in Runs, key \in BOOLEAN : Start(r, key)
  \/ \E r \in Runs : SkipUser(r)
  \/ \E r \in Runs : Query(r)
  \/ \E r \in Runs : NotDue(r)
  \/ \E r \in Runs : NoKey(r)
  \/ \E r \in Runs, status \in FcmStatuses : SendFcmPush(r, status)
  \/ \E r \in Runs : PostRaises(r)
  \/ \E r \in Runs : MarkSent(r)
  \/ \E r \in Runs : EndUser(r)
  \/ \E r \in Runs : EndRun(r)
  \/ Tick

SpecReminders == InitReminders /\ [][NextReminders]_vars

(***************************************************************************)
(* Properties of the returned suggestions                                  *)
(***************************************************************************)
\* the last operation was a suggest_categories call that returned a list
Suggested == call.op = "suggest" /\ result.raised = "none"

\* the place of a category in the order the engine's registry ranks ties by
RegistryPos(cat) ==
  IF engine = "ai" THEN IndexOf(CATEGORY_NAMES, cat) ELSE NlpPriority(cat)

RegistryNames ==
  IF engine = "ai" THEN Elements(CATEGORY_NAMES) ELSE Elements(NLP_CATEGORY_NAMES)

FallbackName == IF engine = "ai" THEN "Other" ELSE "Others"

NoMatchPlaceholders ==
  IF engine = "ai" THEN { "No strong keyword match." }
  ELSE { "Empty line", "Heuristic or ConceptNet match" }

\* C1: the list returned by suggest_categories is in descending score order, and
\* entries of equal score are in ascending registry order, in both engines.
C1_RankedOrder ==
  Suggested =>
    \A i, j \in 1..Len(result.out) :
      i < j =>
        \/ result.out[i].score > result.out[j].score
        \/ /\ result.out[i].score = result.out[j].score
           /\ RegistryPos(result.out[i].cat) < RegistryPos(result.out[j].cat)

\* a returned list whose first two entries tie on the score
C1_TieReturned ==
  /\ Suggested
  /\ Len(result.out) >= 2
  /\ result.out[1].score = result.out[2].score

\* C2: suggest_categories returns at most top_n entries, for every top_n >= 0.
C2_AtMostTopN == Suggested => Len(result.out) <= call.top_n

\* C3: no two entries of a returned list have the same base key (the lower-cased
\* name up to the first "&", trimmed), whatever categories were added.
C3_DistinctBaseKeys ==
  Suggested =>
    \A i, j \in 1..Len(result.out) :
      i # j => BaseKey(result.out[i].cat) # BaseKey(result.out[j].cat)

\* C4: for the empty text, and for a text that scored no category, a call with
\* top_n >= 1 returns exactly the fallback category with score 1 and the no-match
\* explanation; the fallback entry appears only when no category was scored.
C4_FallbackOnly ==
  /\ (call.op = "suggest" /\ call.top_n >= 1
        /\ (Len(Strip(call.text)) = 0 \/ accumulated = 0))
     => /\ result.raised = "none"
        /\ Len(result.out) = 1
        /\ result.out[1].cat = FallbackName
        /\ result.out[1].score = 1
        /\ result.out[1].explanation \in NoMatchPlaceholders
  /\ (Suggested /\ accumulated > 0)
     => \A i \in 1..Len(result.out) :
          ~(result.out[i].cat = FallbackName
              /\ result.out[i].explanation \in NoMatchPlaceholders)

\* C5: suggest_categories never raises: every call returns a list, non-empty when
\* top_n >= 1, of categories of the registry, whatever the override file declares.
C5_NeverRaises ==
  call.op = "suggest" =>
    /\ result.raised = "none"
    /\ call.top_n >= 1 => Len(result.out) >= 1
    /\ \A i \in 1..Len(result.out) : result.out[i].cat \in RegistryNames

\* C6: two suggest_categories calls in a row with the same text and top_n return
\* identical lists, also when the first call is the one that looks a token up.
C6_Idempotent ==
  [][(call.op = "suggest" /\ call' = call) => result' = result]_vars

\* C7: once a lookup of a token has returned a value, every later lookup of the
\* token returns that value without a request to the service, in the same
\* process and after a restart.
C7_CacheLaw ==
  [][call'.op = "suggest" =>
       \A i \in 1..Len(lookups') :
         lookups'[i].token \in DOMAIN answered =>
           /\ ~lookups'[i].requested
           /\ lookups'[i].ret = answered[lookups'[i].token]]_vars

\* C8: after a call in which a lookup missed, the cache has an entry for the token
\* and the cache file holds exactly the in-memory cache.
C8_MissPersisted ==
  call.op = "suggest" =>
    \A i \in 1..Len(lookups) :
      lookups[i].requested =>
        /\ lookups[i].token \in DOMAIN conceptnet_cache
        /\ cacheFile = Dumped(conceptnet_cache)

\* C9: concurrent misses write the cache file one at a time (at most one thread
\* holds the file open), the cache file holds a complete well-formed mapping at
\* every moment, and once every call has finished the file has an entry for every
\* token that was fetched.
C9_Serialized ==
  /\ Cardinality({ t \in Threads : threads[t].pc \in { "dump", "close" } }) <= 1
  /\ cacheFile.kind \in { "absent", "map" }
  /\ (\A t \in Threads : threads[t].pc = "idle")
       => \A w \in fetched : cacheFile.kind = "map" /\ w \in DOMAIN cacheFile.map

\* C10: adding a category whose name is already in the registry fails with a
\* duplicate-name error and leaves the registry, the index and the file as they were.
C10_DuplicateRejected ==
  [][(call'.op = "add" /\ call'.name \in Elements(CATEGORY_NAMES)) =>
       /\ result'.raised = "DuplicateCategoryError"
       /\ UNCHANGED << CATEGORY_DATA, CATEGORY_KEYWORDS, CATEGORY_NAMES, configFile >>]_vars

\* whether the elements of a list are pairwise distinct
Distinct(list) == \A i, j \in 1..Len(list) : i # j => list[i] # list[j]

\* C11: in every reachable registry state the category names are pairwise
\* distinct, in the category list and in the name-order list.
C11_UniqueNames ==
  engine = "ai" => Distinct(NamesOf(CATEGORY_DATA)) /\ Distinct(CATEGORY_NAMES)

\* C12: add_custom_category is atomic for a concurrent suggest_categories: the
\* call returns (or raises) what it would on the registry before the add or on
\* the registry after it, never a result of a partially updated registry.
C12_AtomicAdd == reader.pc = "done" => reader.out \in reader.allowed

\* the categories that add_custom_category appended under a name that was new:
\* their places in CATEGORY_DATA
AddedNew ==
  { i \in 1..Len(CATEGORY_DATA) :
      /\ i > Len(CATEGORY_DATA) - added
      /\ \A j \in 1..(i - 1) : CATEGORY_DATA[j].name # CATEGORY_DATA[i].name }

\* the returned list has category cat with an exact-match score and keyword k
\* in its explanation
ListsWith(cat, k) ==
  /\ result.raised = "none"
  /\ \E j \in 1..Len(result.out) :
       /\ result.out[j].cat = cat
       /\ result.out[j].score >= KEYWORD_WEIGHT
       /\ Contains(result.out[j].explanation, k)

\* C13: once add_custom_category has added a category under a new name, every
\* later suggest_categories call whose text contains one of its keywords returns
\* the category with that keyword in its explanation, when top_n is at least the
\* number of scored categories.
C13_AddedIsSuggested ==
  (engine = "ai" /\ call.op = "suggest") =>
    \A i \in AddedNew :
      \A n \in 1..Len(CATEGORY_DATA[i].keywords) :
        (/\ Contains(Lower(call.text), Lower(CATEGORY_DATA[i].keywords[n]))
         /\ call.top_n >= accumulated)
        => ListsWith(CATEGORY_DATA[i].name, Lower(CATEGORY_DATA[i].keywords[n]))

\* importing the module with this file gives the registry now in memory
RebuildsTo(data) ==
  /\ data = CATEGORY_DATA
  /\ NamesOf(data) = CATEGORY_NAMES
  /\ BuildIndex(<< >>, data) = CATEGORY_KEYWORDS

\* C14: after every add_custom_category call the override file holds the whole
\* registry in order, so a restart, which replaces the built-in table by the
\* file, rebuilds the category list, the name order and the keyword index that
\* are in memory.
C14_FileHoldsRegistry ==
  (engine = "ai" /\ call.op = "add") =>
    configFile.kind = "data" /\ RebuildsTo(LoadCategoryData(configFile))

\* an add of mixed-case keywords on top of the built-in table
C14_AddedWithKeywords ==
  /\ engine = "ai"
  /\ call.op = "add"
  /\ call.keywords = << "Food", "milk" >>
  /\ Len(CATEGORY_DATA) = Len(DEFAULT_CATEGORY_DATA) + 1

\* the housing category of the engine's registry
HousingName == IF engine = "ai" THEN "Home & Rent" ELSE "Rent & Housing"

\* the text holds an amount above the threshold
LargeAmount(text_l) ==
  BareAmount(text_l).found /\ BareAmount(text_l).value > AMOUNT_THRESHOLD

\* C15: in both engines an amount above 5000 adds the heuristic weight 1 to the
\* housing category: "Paid 7500 for rent" ranks the housing category first with
\* score >= 4 (3 exact + 1 heuristic), and a text with a large amount lists the
\* housing category whenever top_n holds every scored category.
C15_LargeAmountHeuristic ==
  Suggested =>
    /\ (call.text = "Paid 7500 for rent" /\ call.top_n >= 1)
         => /\ result.out[1].cat = HousingName
            /\ result.out[1].score >= KEYWORD_WEIGHT + AMOUNT_WEIGHT
    /\ (LargeAmount(Lower(call.text)) /\ call.top_n >= accumulated /\ call.top_n >= 1)
         => \E j \in 1..Len(result.out) : result.out[j].cat = HousingName

\* the service that answers with no label where the lookups of log failed and
\* as the service did elsewhere
RECURSIVE Absorbed(_, _)
Absorbed(service, log) ==
  IF Len(log) = 0 THEN service
  ELSE Absorbed(IF Head(log).requested
                THEN CachePut(service, Head(log).token,
                              [kind |-> "ok",
                               labels |-> IF Head(log).outcome \in Failures THEN << >>
                                          ELSE Head(log).ret])
                ELSE service,
                Tail(log))

\* C16: a failed lookup (timeout, connection error, non-200 status, malformed
\* payload) is absorbed: get_conceptnet_isas returns no label, and
\* suggest_categories returns what it returns when the service answers these
\* tokens with no label, so the other tokens contribute as before.
C16_FailureAbsorbed ==
  [][(engine = "nlp" /\ call'.op = "suggest") =>
       /\ result'.raised = "none"
       /\ \A i \in 1..Len(lookups') :
            lookups'[i].outcome \in Failures => lookups'[i].ret = << >>
       /\ result'.out =
            nlp_suggest_categories(conceptnet_cache, cacheFile, call'.text, call'.top_n,
                                   Absorbed(EmptyCache, lookups')).out]_vars

\* a call in which a lookup got a malformed payload and another token scored
C16_FailedLookup ==
  /\ engine = "nlp"
  /\ call.op = "suggest"
  /\ \E i \in 1..Len(lookups) : lookups[i].outcome = "malformed"
  /\ Len(result.out) >= 1
  /\ result.out[1].score >= EXACT_WEIGHT

\* the last currency-marked number of the text, None when there is none
LastMarkedAmount(text) ==
  IF MarkedStarts(text) = {} THEN None
  ELSE Number(LastMarked(text, MarkedStarts(text)))

\* C17: the amount extractor returns the last currency-marked number of the
\* text and None, a value that is no amount, when there is none; the simple
\* engine uses a bare number of 2 to 8 digits only when the text has no
\* currency-marked number.
C17_AmountExtractor ==
  /\ amount.op = "extract" => amount.ret = LastMarkedAmount(amount.text)
  /\ (amount.op = "ai" /\ MarkedStarts(amount.text) # {})
       => amount.ret = LastMarkedAmount(amount.text)


\* the tokens of text that equal a keyword of the index
ExactTokens(text) ==
  { tok \in Elements(NlpTokens(Lower(text))) : KwPos(NLP_CATEGORY_KEYWORDS, tok) > 0 }

\* C18: a token that equals some keyword exactly contributes no fuzzy weight: no
\* category returned by suggest_categories of nlp_module carries fuzzy evidence
\* "<token> ~ <keyword> (fuzzy)" for a token that is itself a keyword.
C18_ExactExcludesFuzzy ==
  (engine = "nlp" /\ Suggested) =>
    \A tok \in ExactTokens(call.text) : \A i \in 1..Len(result.out) :
      ~Contains(", " \o result.out[i].explanation, ", " \o tok \o " ~ ")

\* the tokens of the modelled texts with no exact and no fuzzy match in the index
NoLexicalMatch == { tok \in NlpVocabulary : Len(NlpHitTable[tok]) = 0 }

Unmatched(tok) == tok \in NoLexicalMatch

\* how many times x occurs in list
RECURSIVE Occurrences(_, _)
Occurrences(list, x) ==
  IF Len(list) = 0 THEN 0
  ELSE (IF Head(list) = x THEN 1 ELSE 0) + Occurrences(Tail(list), x)

\* the weight cat receives from the index entries in hits for one token
RECURSIVE LexicalWeight(_, _, _)
LexicalWeight(cat, tok, hits) ==
  IF Len(hits) = 0 THEN 0
  ELSE (IF tok = Head(hits).kw THEN EXACT_WEIGHT ELSE FUZZY_WEIGHT)
         * Occurrences(Head(hits).cats, cat)
       + LexicalWeight(cat, tok, Tail(hits))

\* the lexical weight of cat over all tokens of a text
RECURSIVE LexicalScore(_, _)
LexicalScore(cat, tokens) ==
  IF Len(tokens) = 0 THEN 0
  ELSE LexicalWeight(cat, Head(tokens), NlpHitTable[Head(tokens)])
       + LexicalScore(cat, Tail(tokens))

\* the number of distinct labels of one lookup that are keywords owned by cat
OwnedLabels(cat, labels) ==
  Cardinality({ l \in Elements(labels) :
                  /\ KwPos(NLP_CATEGORY_KEYWORDS, l) > 0
                  /\ Occurrences(NLP_CATEGORY_KEYWORDS[KwPos(NLP_CATEGORY_KEYWORDS, l)].cats,
                                 cat) > 0 })

\* weight 1 for each (looked-up token, label) pair whose label cat owns
RECURSIVE SemanticScore(_, _)
SemanticScore(cat, log) ==
  IF Len(log) = 0 THEN 0
  ELSE CONCEPT_WEIGHT * OwnedLabels(cat, Head(log).ret) + SemanticScore(cat, Tail(log))

LookedUp(log) == [i \in 1..Len(log) |-> log[i].token]

RECURSIVE OwnedKeywords(_, _)
OwnedKeywords(cat, hits) ==
  IF Len(hits) = 0 THEN << >>
  ELSE (IF Occurrences(Head(hits).cats, cat) > 0 THEN << Head(hits).kw >> ELSE << >>)
       \o OwnedKeywords(cat, Tail(hits))

\* the weight of the large-amount heuristic for cat
AmountShare(cat, text_l) ==
  IF LargeAmount(text_l) /\ cat \in { "Home & Rent", "Investment & Savings" }
  THEN AMOUNT_WEIGHT ELSE 0

\* C20: in ai/categorizer.py the score of every returned category is 3 times the
\* number of index keywords it owns that occur in the lower-cased text, plus the
\* weight of the large-amount heuristic where it applies and nothing else, and
\* the evidence of a category with keywords is exactly those keywords, once each.
C20_ContainmentScore ==
  (engine = "ai" /\ Suggested /\ accumulated > 0) =>
    \A i \in 1..Len(result.out) :
      /\ result.out[i].score =
           KEYWORD_WEIGHT
             * Len(OwnedKeywords(result.out[i].cat,
                                 AiHits(CATEGORY_KEYWORDS, Lower(call.text))))
           + AmountShare(result.out[i].cat, Lower(call.text))
      /\ Len(OwnedKeywords(result.out[i].cat,
                           AiHits(CATEGORY_KEYWORDS, Lower(call.text)))) > 0
           => result.out[i].explanation =
                AiExplanation(OwnedKeywords(result.out[i].cat,
                                            AiHits(CATEGORY_KEYWORDS, Lower(call.text))))

\* whether the category declares kw, whatever the case of its keywords
Declares(cat, kw) == \E j \in 1..Len(cat.keywords) : Lower(cat.keywords[j]) = kw

\* the names of the categories of data that declare kw, in registry order
Declaring(data, kw) ==
  LET Test(cat) == Declares(cat, kw)
  IN  NamesOf(SelectSeq(data, Test))

\* the lower-cased keywords declared by the categories of data
DeclaredKeywords(data) ==
  UNION { { Lower(data[i].keywords[j]) : j \in 1..Len(data[i].keywords) } :
            i \in 1..Len(data) }

\* C21: in every state of ai/categorizer.py the name-order list is the sequence
\* of names of the category list, and the keyword index has exactly the
\* lower-cased declared keywords, each with the names of the categories that
\* declare it, in registry order, one entry for each declaring category.
C21_IndexDerived ==
  engine = "ai" =>
    /\ CATEGORY_NAMES = NamesOf(CATEGORY_DATA)
    /\ { CATEGORY_KEYWORDS[i].kw : i \in 1..Len(CATEGORY_KEYWORDS) }
         = DeclaredKeywords(CATEGORY_DATA)
    /\ \A i \in 1..Len(CATEGORY_KEYWORDS) :
         CATEGORY_KEYWORDS[i].cats = Declaring(CATEGORY_DATA, CATEGORY_KEYWORDS[i].kw)

\* a run is between a push answered with status 200 and the update of rem
Updating(rem) ==
  \E r \in Runs : runs[r].pc = "update" /\ Head(runs[r].reminders) = rem

\* C22: over all runs of process_due_reminders, overlapping ones included, no
\* reminder gets more than one push answered with status 200; a push is sent
\* only for a reminder that is due, not marked sent when the push is sent, and
\* owned by a user with a token; and a reminder is marked sent exactly when a
\* push for it returned status 200 (the update of line 142 may be under way).
C22_AtMostOncePush ==
  /\ \A rem \in REMINDERS : delivered[rem] <= 1
  /\ push.op = "push" =>
       /\ REMIND_DT[push.rem] <= push.now /\ push.now <= clock
       /\ ~push.sent
       /\ Len(push.token) > 0 /\ push.token = FCM_TOKENS[OWNER[push.rem]]
  /\ \A rem \in REMINDERS :
       /\ sent[rem] => delivered[rem] >= 1
       /\ delivered[rem] >= 1 => (sent[rem] \/ Updating(rem))
====
